---- MODULE Spec2Model ----
(***************************************************************************)
(* Model of the smart-recipe-finder search pipeline and batch ingestion:   *)
(*   backend/app.py               search_endpoint (validation, fallbacks)  *)
(*   backend/search.py            search_recipes  (embed + index query)    *)
(*   backend/generate_response.py generate_response (rank, prompt, LLM)    *)
(* One request is followed from its arrival to its HTTP result; the        *)
(* embedder, the vector index and the generation service are external and  *)
(* each of their calls may return normally or raise.                       *)
(***************************************************************************)
EXTENDS Integers, Sequences, FiniteSets, TLC

VARIABLES pc, payload, user_query, top_k, query_embedding, results, recipes,
          recipe_embeddings, ranked, prompt, recipe_links, result, calls,
          retrieval, lastGen, response, csvjob, indexjob

vars == <<pc, payload, user_query, top_k, query_embedding, results, recipes,
          recipe_embeddings, ranked, prompt, recipe_links, result, calls,
          retrieval, lastGen, response, csvjob, indexjob>>

(***************************************************************************)
(* Bounds of the model                                                     *)
(***************************************************************************)
MaxK == 5            \* largest top_k a request carries explicitly
MaxResults == 5      \* most candidates the index returns for one query
MaxMissing == 1      \* most trailing embeddings the index result may lack

(***************************************************************************)
(* Program constants (message texts are written without their accents)     *)
(***************************************************************************)
DefaultTopK == 5
TopN == 3
DirectionsLimit == 200

SearchErrorMsg == "Erreur interne lors de la recherche des recettes."
NoResultsMsg == "No relevant recipes found for your query."
AppGenErrorMsg == "Erreur lors de la generation de la reponse."
NoRelevantMsg == "Aucune recette pertinente trouvee."
NoModelResponseMsg == "Aucune reponse recue du modele."
GenErrorMsg == "Une erreur inattendue est survenue lors de la generation de la reponse."
YoutubePrefix == "https://www.youtube.com/watch?v="
UnnamedRecipe == "Unnamed Recipe"
UnknownId == "unknown_id"

(***************************************************************************)
(* Text.  A string is a sequence of runs: Run(c, n) is the character c     *)
(* repeated n times.  A fixed fragment without surrounding whitespace is   *)
(* carried as one run of count 1 whose c is the fragment.                  *)
(***************************************************************************)
Run(c, n) == [c |-> c, n |-> n]

Lit(s) == <<Run(s, 1)>>

IsSpace(r) == r.c \in {" ", "\n"}

RECURSIVE lstrip(_)
lstrip(t) ==
  IF t = <<>> THEN <<>>
  ELSE IF IsSpace(Head(t)) THEN lstrip(Tail(t)) ELSE t

RECURSIVE rstrip(_)
rstrip(t) ==
  IF t = <<>> THEN <<>>
  ELSE IF IsSpace(t[Len(t)]) THEN rstrip(SubSeq(t, 1, Len(t) - 1)) ELSE t

\* str.strip()
strip(t) == rstrip(lstrip(t))

\* len(str), for strings made of single-character runs
RECURSIVE len(_)
len(t) == IF t = <<>> THEN 0 ELSE Head(t).n + len(Tail(t))

\* str[:k]
RECURSIVE Slice(_, _)
Slice(t, k) ==
  IF t = <<>> \/ k <= 0 THEN <<>>
  ELSE IF Head(t).n <= k
       THEN <<Head(t)>> \o Slice(Tail(t), k - Head(t).n)
       ELSE <<Run(Head(t).c, k)>>

(***************************************************************************)
(* Dictionaries.  dict.get(k, default) on a record, and an insertion-      *)
(* ordered dict as a sequence of <<key, value>> pairs with distinct keys.  *)
(***************************************************************************)
Get(d, k, default) == IF k \in DOMAIN d THEN d[k] ELSE default

DictKeys(d) == {d[i][1] : i \in 1..Len(d)}

DictSet(d, k, v) ==
  IF k \in DictKeys(d)
  THEN [i \in 1..Len(d) |-> IF d[i][1] = k THEN <<k, v>> ELSE d[i]]
  ELSE Append(d, <<k, v>>)

DictLookup(d, k) == d[CHOOSE i \in 1..Len(d) : d[i][1] = k][2]

Min(a, b) == IF a <= b THEN a ELSE b

(***************************************************************************)
(* Inputs: request payloads, and the contents of the vector index          *)
(***************************************************************************)
EmptyDict == <<>>

Queries ==
  { <<>>,
    <<Run(" ", 2)>>,
    <<Run("a", 1)>>,
    <<Run(" ", 1), Run("a", 1), Run("\n", 1)>> }

TopKValues == (-1)..MaxK

Payloads ==
  {EmptyDict}
    \cup {[query |-> q] : q \in Queries}
    \cup {[top_k |-> k] : k \in TopKValues}
    \cup {[query |-> q, top_k |-> k] : q \in Queries, k \in TopKValues}

\* The records of the "recipes_embeddings" collection: metadata and embedding.
Collection ==
  << [meta |-> [title |-> Lit("Soup"), ingredients |-> Lit("salt"),
                directions |-> <<Run(" ", 2), Run("a", 150), Run(" ", 1),
                                 Run("b", 100), Run(" ", 3)>>],
      embedding |-> <<1, 0>>],
     [meta |-> [title |-> <<Run(" ", 1)>>, ingredients |-> Lit("rice"),
                directions |-> <<Run("a", 200)>>],
      embedding |-> <<1, 1>>],
     [meta |-> [id |-> "a", title |-> Lit("Stew"), ingredients |-> Lit("beef"),
                directions |-> <<Run("a", 201)>>],
      embedding |-> <<2, 0>>],
     [meta |-> [id |-> "recipe_1", title |-> Lit("Cake"),
                ingredients |-> Lit("egg"),
                directions |-> <<Run("a", 3), Run(" ", 1), Run("b", 4)>>],
      embedding |-> <<-1, 0>>],
     [meta |-> [ingredients |-> Lit("oats")],
      embedding |-> <<>>] >>

QueryVectors == {<<1, 0>>, <<0, 1>>, <<0, 0>>}

\* What _COLLECTION.query can return for n_results = k: at most k distinct
\* records in the index's own order, the embeddings list possibly shorter.
Picks(n) ==
  {s \in [1..n -> 1..Len(Collection)] :
     \A i, j \in 1..n : i # j => s[i] # s[j]}

IndexResults(k) ==
  UNION { { [metadatas |-> [i \in 1..n |-> Collection[s[i]].meta],
             embeddings |-> [i \in 1..(n - m) |-> Collection[s[i]].embedding]] :
              s \in Picks(n), m \in 0..Min(MaxMissing, n) } :
          n \in 0..Min(Min(k, MaxResults), Len(Collection)) }

\* Outcome of a call: a normal return with a value, or a raised exception.
Return(v) == [raised |-> FALSE, value |-> v]

Raise(e) == [raised |-> TRUE, exc |-> e]

EmbedOutcomes ==
  {Raise("EmbeddingUnavailable")} \cup {Return(v) : v \in QueryVectors}

QueryOutcomes(k) ==
  {Raise("IndexUnavailable")} \cup {Return(r) : r \in IndexResults(k)}

\* model.generate_content: raises, returns no response, or returns a
\* response whose candidates are sequences of text parts.
GenOutcomes ==
  { Raise("GenerationUnavailable"),
    Return([present |-> FALSE, candidates |-> <<>>]),
    Return([present |-> TRUE, candidates |-> <<>>]),
    Return([present |-> TRUE, candidates |-> << <<>> >>]),
    Return([present |-> TRUE,
            candidates |-> << << <<Run(" ", 1), Run("Try", 1)>>,
                                 <<Run(" ", 1), Run("soup", 1), Run("\n", 1)>> >>,
                              << Lit("Other") >> >>]) }

(***************************************************************************)
(* backend/app.py: request validation                                      *)
(***************************************************************************)
\* ValidQuery without the strip
ValidQuery_NoStrip(s) == len(s) > 0

ValidQuery(s) == len(strip(s)) > 0

ValidTopK(n) == n > 0

\* search_schema.load(payload): the loaded data, or the failing fields
SchemaLoad(p) ==
  LET badQuery == "query" \notin DOMAIN p \/ ~ValidQuery(Get(p, "query", <<>>))
      k == Get(p, "top_k", DefaultTopK)
      bad == (IF badQuery THEN {"query"} ELSE {})
               \cup (IF ~ValidTopK(k) THEN {"top_k"} ELSE {})
  IN IF bad # {}
     THEN Raise([f \in bad |-> "invalid"])
     ELSE Return([query |-> p.query, top_k |-> k])

HTTP(status, body) == [status |-> status, body |-> body]

\* an exception that no try block of the handler catches
Unhandled(e) == [unhandled |-> e]

NoResult == [status |-> 0]

(***************************************************************************)
(* backend/search.py: search_recipes                                       *)
(***************************************************************************)
SyntheticId(idx) == "recipe_" \o ToString(idx)

\* meta["id"] = meta.get("id", f"recipe_{idx}")
WithId(meta, idx) ==
  [k \in DOMAIN meta \cup {"id"} |->
     IF k = "id" THEN Get(meta, "id", SyntheticId(idx)) ELSE meta[k]]

\* the loop over enumerate(metadatas): idx counts from 0
ExtractMeta(metadatas) ==
  [i \in 1..Len(metadatas) |-> WithId(metadatas[i], i - 1)]

ExtractEmbeddings(metadatas, embeddings) ==
  SubSeq(embeddings, 1, Min(Len(metadatas), Len(embeddings)))

EmptyQuery(query) == strip(query) = <<>>

(***************************************************************************)
(* backend/generate_response.py: ranking                                   *)
(***************************************************************************)
RECURSIVE Dot(_, _)
Dot(a, b) == IF a = <<>> THEN 0 ELSE Head(a) * Head(b) + Dot(Tail(a), Tail(b))

Sign(x) == IF x > 0 THEN 1 ELSE IF x < 0 THEN -1 ELSE 0

\* A similarity score, kept exact: the cosine c is carried as the fraction
\* s/d = sign(c) * c^2, which orders scores exactly as c does; a vector of
\* norm 0 scores 0.
Score(q, e) ==
  IF Dot(q, q) = 0 \/ Dot(e, e) = 0
  THEN [s |-> 0, d |-> 1]
  ELSE [s |-> Sign(Dot(q, e)) * Dot(q, e) * Dot(q, e), d |-> Dot(q, q) * Dot(e, e)]

ScoreLess(a, b) == a.s * b.d < b.s * a.d

\* cosine_similarity([query_embedding], recipe_embeddings)[0]: raises when
\* the rows do not all have the dimension of the query vector
cosine_similarity(q, Y) ==
  IF \E i \in 1..Len(Y) : Len(Y[i]) # Len(q)
  THEN Raise("ValueError")
  ELSE Return([i \in 1..Len(Y) |-> Score(q, Y[i])])

zip(a, b) == [i \in 1..Min(Len(a), Len(b)) |-> <<a[i], b[i]>>]

\* InsertDesc placing x in front of the elements whose key equals its own
RECURSIVE InsertDesc_TiesFirst(_, _)
InsertDesc_TiesFirst(l, x) ==
  IF l = <<>> THEN <<x>>
  ELSE IF ~ScoreLess(x[2], Head(l)[2]) THEN <<x>> \o l
       ELSE <<Head(l)>> \o InsertDesc_TiesFirst(Tail(l), x)

\* place x behind every element whose key is not smaller than its own
RECURSIVE InsertDesc(_, _)
InsertDesc(l, x) ==
  IF l = <<>> THEN <<x>>
  ELSE IF ScoreLess(Head(l)[2], x[2]) THEN <<x>> \o l
       ELSE <<Head(l)>> \o InsertDesc(Tail(l), x)

\* sorted(pairs, key=lambda x: x[1], reverse=True)
RECURSIVE sorted(_)
sorted(pairs) ==
  IF pairs = <<>> THEN <<>>
  ELSE InsertDesc(sorted(SubSeq(pairs, 1, Len(pairs) - 1)), pairs[Len(pairs)])

\* ranked[:3]
TopRanked(r) == SubSeq(r, 1, Min(TopN, Len(r)))

(***************************************************************************)
(* backend/generate_response.py: prompt                                    *)
(***************************************************************************)
Ellipsis == <<Run(".", 3)>>

youtube_link(recipe_id) == YoutubePrefix \o recipe_id

\* short_directions without the cut
short_directions_NoCut(directions) == directions

short_directions(directions) ==
  IF len(directions) > DirectionsLimit
  THEN Slice(directions, DirectionsLimit)
  ELSE directions

PromptEntry(recipe) ==
  LET recipe_id == Get(recipe, "id", UnknownId)
      stripped == strip(Get(recipe, "title", <<>>))
      title == IF stripped = <<>> THEN Lit(UnnamedRecipe) ELSE stripped
      directions == strip(Get(recipe, "directions", <<>>))
  IN [title |-> title,
      video |-> youtube_link(recipe_id),
      ingredients |-> Get(recipe, "ingredients", <<>>),
      steps |-> short_directions(directions) \o Ellipsis]

PromptEntries(top) == [i \in 1..Len(top) |-> PromptEntry(top[i][1])]

\* recipe_links[recipe_id] = youtube_link, in the order of the loop
RECURSIVE RecipeLinks(_)
RecipeLinks(top) ==
  IF top = <<>> THEN <<>>
  ELSE LET recipe_id == Get(top[Len(top)][1], "id", UnknownId)
       IN DictSet(RecipeLinks(SubSeq(top, 1, Len(top) - 1)),
                  recipe_id, youtube_link(recipe_id))

(***************************************************************************)
(* backend/generate_response.py: the generation call and its answer        *)
(***************************************************************************)
RECURSIVE Concat(_)
Concat(parts) == IF parts = <<>> THEN <<>> ELSE Head(parts) \o Concat(Tail(parts))

RECURSIVE JoinLines(_)
JoinLines(lines) ==
  IF lines = <<>> THEN <<>>
  ELSE IF Len(lines) = 1 THEN Head(lines)
       ELSE Head(lines) \o <<Run("\n", 1)>> \o JoinLines(Tail(lines))

LinkLine(kv) == Lit(kv[1] \o ": " \o kv[2])

VideoLinksBlock(links) ==
  <<Run("\n", 2), Run("Video Links:", 1), Run("\n", 1)>>
    \o JoinLines([i \in 1..Len(links) |-> LinkLine(links[i])])

\* GenerateAnswer without its except clause: the failure reaches the caller
GenerateAnswer_NoExcept(out, links) ==
  IF out.raised THEN Lit(AppGenErrorMsg)
  ELSE IF out.value.present /\ out.value.candidates # <<>>
       THEN strip(Concat(out.value.candidates[1]) \o VideoLinksBlock(links))
       ELSE Lit(NoModelResponseMsg)

\* GenerateAnswer reading the last output candidate instead of the first
GenerateAnswer_LastCandidate(out, links) ==
  IF out.raised THEN Lit(GenErrorMsg)
  ELSE IF out.value.present /\ out.value.candidates # <<>>
       THEN strip(Concat(out.value.candidates[Len(out.value.candidates)])
                    \o VideoLinksBlock(links))
       ELSE Lit(NoModelResponseMsg)

\* the try block around model.generate_content and its except clause
GenerateAnswer(out, links) ==
  IF out.raised THEN Lit(GenErrorMsg)
  ELSE IF out.value.present /\ out.value.candidates # <<>>
       THEN strip(Concat(out.value.candidates[1]) \o VideoLinksBlock(links))
       ELSE Lit(NoModelResponseMsg)

(***************************************************************************)
(* backend/app.py: search_endpoint, fallbacks and result assembly          *)
(***************************************************************************)
\* SearchExcept reporting the underlying failure
SearchExcept_LeakDetail(e) == HTTP(500, [error |-> e])

\* except Exception around search_recipes
SearchExcept(e) == HTTP(500, [error |-> SearchErrorMsg])

\* the emptiness test left out
NoRecipes_Never(r) == FALSE

\* if not recipes
NoRecipes(r) == r = <<>>

EmptyResponse(query) ==
  HTTP(200, [query |-> query, response |-> Lit(NoResultsMsg),
             recipes |-> <<>>, videos |-> <<>>])

\* TryGenerate without its except clause
TryGenerate_NoCatch(out) == out

\* try: generate_response(...) except Exception: response_text = ...
TryGenerate(out) == IF out.raised THEN Return(Lit(AppGenErrorMsg)) ELSE out

\* the dict comprehension over enumerate(recipes): idx counts from 0
RECURSIVE recipe_videos(_)
recipe_videos(rs) ==
  IF rs = <<>> THEN <<>>
  ELSE LET recipe == rs[Len(rs)]
           idx == Len(rs) - 1
       IN DictSet(recipe_videos(SubSeq(rs, 1, Len(rs) - 1)),
                  Get(recipe, "id", SyntheticId(idx)),
                  YoutubePrefix \o Get(recipe, "id", ""))

SuccessResponse(query, response_text, rs) ==
  HTTP(200, [query |-> query, response |-> response_text,
             recipes |-> rs, videos |-> recipe_videos(rs)])

\* steps 3 and 4 of the handler, given how generate_response ended
Finish(query, out, rs) ==
  LET r == TryGenerate(out)
  IN IF r.raised THEN Unhandled(r.exc) ELSE SuccessResponse(query, r.value, rs)

(***************************************************************************)
(* State machine of one request                                            *)
(***************************************************************************)
NoCalls == [embed |-> 0, index |-> 0, prompt |-> 0, gen |-> 0]

NoPrompt == [query |-> <<>>, entries |-> <<>>]

EmptyResults == [metadatas |-> <<>>, embeddings |-> <<>>]

\* no generation call made yet
NoResponse == [present |-> FALSE, candidates |-> <<>>]

Terminal == {"Invalid", "Failed", "Empty", "Done"}

\* import_csv_to_mongo.main not started: nothing read, nothing counted
CsvIdle == [pc |-> "idle", file |-> <<>>, pos |-> 0, inserted |-> 0,
            skipped |-> 0, col |-> <<>>]

\* preprocess.main not started: nothing loaded, nothing indexed
IndexIdle == [pc |-> "idle", recipes |-> <<>>, batch_idx |-> 0, stored |-> <<>>,
              embedFailed |-> {}, addFailed |-> {}]

Init ==
  /\ pc = "Idle"
  /\ csvjob = CsvIdle
  /\ indexjob = IndexIdle
  /\ payload = EmptyDict
  /\ user_query = <<>>
  /\ top_k = 0
  /\ query_embedding = <<>>
  /\ results = EmptyResults
  /\ recipes = <<>>
  /\ recipe_embeddings = <<>>
  /\ ranked = <<>>
  /\ prompt = NoPrompt
  /\ recipe_links = <<>>
  /\ result = NoResult
  /\ calls = NoCalls
  /\ retrieval = "none"
  /\ lastGen = "none"
  /\ response = NoResponse

\* a request arrives; nothing of an earlier request is kept
Receive ==
  /\ UNCHANGED <<csvjob, indexjob>>
  /\ pc \in {"Idle"} \cup Terminal
  /\ \E p \in Payloads : payload' = p
  /\ pc' = "Validating"
  /\ user_query' = <<>>
  /\ top_k' = 0
  /\ query_embedding' = <<>>
  /\ results' = EmptyResults
  /\ recipes' = <<>>
  /\ recipe_embeddings' = <<>>
  /\ ranked' = <<>>
  /\ prompt' = NoPrompt
  /\ recipe_links' = <<>>
  /\ result' = NoResult
  /\ calls' = NoCalls
  /\ retrieval' = "none"
  /\ lastGen' = "none"
  /\ response' = NoResponse

\* 1) Validate user input
Validate ==
  /\ UNCHANGED <<csvjob, indexjob>>
  /\ pc = "Validating"
  /\ LET data == SchemaLoad(payload)
     IN IF data.raised
        THEN /\ pc' = "Invalid"
             /\ result' = HTTP(400, data.exc)
             /\ UNCHANGED <<user_query, top_k>>
        ELSE /\ pc' = "Embedding"
             /\ user_query' = strip(data.value.query)
             /\ top_k' = data.value.top_k
             /\ UNCHANGED result
  /\ UNCHANGED <<payload, query_embedding, results, recipes, recipe_embeddings,
                 ranked, prompt, recipe_links, calls, retrieval, lastGen,
                 response>>

\* 2) search_recipes, up to the embedding of the query
Embed ==
  /\ UNCHANGED <<csvjob, indexjob>>
  /\ pc = "Embedding"
  /\ IF EmptyQuery(user_query)
     THEN /\ pc' = "Failed"
          /\ result' = SearchExcept("ValueError")
          /\ retrieval' = "failed"
          /\ UNCHANGED <<query_embedding, calls>>
     ELSE \E out \in EmbedOutcomes :
            /\ calls' = [calls EXCEPT !.embed = @ + 1]
            /\ IF out.raised
               THEN /\ pc' = "Failed"
                    /\ result' = SearchExcept(out.exc)
                    /\ retrieval' = "failed"
                    /\ UNCHANGED query_embedding
               ELSE /\ pc' = "Querying"
                    /\ query_embedding' = out.value
                    /\ UNCHANGED <<result, retrieval>>
  /\ UNCHANGED <<payload, user_query, top_k, results, recipes,
                 recipe_embeddings, ranked, prompt, recipe_links, lastGen,
                 response>>

\* 2) search_recipes, the index query and the extraction of its results
QueryIndex ==
  /\ UNCHANGED <<csvjob, indexjob>>
  /\ pc = "Querying"
  /\ \E out \in QueryOutcomes(top_k) :
       /\ calls' = [calls EXCEPT !.index = @ + 1]
       /\ IF out.raised
          THEN /\ pc' = "Failed"
               /\ result' = SearchExcept(out.exc)
               /\ retrieval' = "failed"
               /\ UNCHANGED <<results, recipes, recipe_embeddings>>
          ELSE /\ results' = out.value
               /\ recipes' = ExtractMeta(out.value.metadatas)
               /\ recipe_embeddings' =
                    ExtractEmbeddings(out.value.metadatas, out.value.embeddings)
               /\ retrieval' = "ok"
               /\ IF NoRecipes(recipes')
                  THEN pc' = "Empty" /\ result' = EmptyResponse(user_query)
                  ELSE pc' = "Composing" /\ UNCHANGED result
  /\ UNCHANGED <<payload, user_query, top_k, query_embedding, ranked, prompt,
                 recipe_links, lastGen,
                 response>>

\* 3) generate_response, up to the built prompt
Compose ==
  /\ UNCHANGED <<csvjob, indexjob>>
  /\ pc = "Composing"
  /\ calls' = [calls EXCEPT !.prompt = @ + 1]
  /\ IF recipes = <<>> \/ recipe_embeddings = <<>>
     THEN /\ pc' = "Done"
          /\ result' = Finish(user_query, Return(Lit(NoRelevantMsg)), recipes)
          /\ UNCHANGED <<ranked, prompt, recipe_links>>
     ELSE LET similarity_scores == cosine_similarity(query_embedding, recipe_embeddings)
          IN IF similarity_scores.raised
             THEN /\ pc' = "Done"
                  /\ result' = Finish(user_query, similarity_scores, recipes)
                  /\ UNCHANGED <<ranked, prompt, recipe_links>>
             ELSE /\ pc' = "Generating"
                  /\ ranked' = sorted(zip(recipes, similarity_scores.value))
                  /\ prompt' = [query |-> user_query,
                                entries |-> PromptEntries(TopRanked(ranked'))]
                  /\ recipe_links' = RecipeLinks(TopRanked(ranked'))
                  /\ UNCHANGED result
  /\ UNCHANGED <<payload, user_query, top_k, query_embedding, results, recipes,
                 recipe_embeddings, retrieval, lastGen,
                 response>>

\* 3) generate_response, the generation call; 4) the result
Generate ==
  /\ UNCHANGED <<csvjob, indexjob>>
  /\ pc = "Generating"
  /\ \E out \in GenOutcomes :
       /\ calls' = [calls EXCEPT !.gen = @ + 1]
       /\ response' = IF out.raised THEN NoResponse ELSE out.value
       /\ lastGen' = IF out.raised THEN "raised"
                     ELSE IF out.value.present /\ out.value.candidates # <<>>
                          THEN "text" ELSE "none"
       /\ result' = Finish(user_query, Return(GenerateAnswer(out, recipe_links)),
                           recipes)
  /\ pc' = "Done"
  /\ UNCHANGED <<payload, user_query, top_k, query_embedding, results, recipes,
                 recipe_embeddings, ranked, prompt, recipe_links, retrieval>>

Next == Receive \/ Validate \/ Embed \/ QueryIndex \/ Compose \/ Generate

Spec == Init /\ [][Next]_vars

TypeOK == pc \in {"Idle", "Validating", "Embedding", "Querying", "Composing",
                  "Generating", "Blocked"} \cup Terminal

(***************************************************************************)
(* An external dependency that never responds.  _EMBEDDING_MODEL.encode,   *)
(* _COLLECTION.query and model.generate_content are called without a       *)
(* timeout, so the handler waits inside the call and takes no further step.*)
(***************************************************************************)
Stall ==
  /\ UNCHANGED <<csvjob, indexjob>>
  /\ pc \in {"Embedding", "Querying", "Generating"}
  /\ pc = "Embedding" => ~EmptyQuery(user_query)
  /\ calls' = [calls EXCEPT
                 !.embed = IF pc = "Embedding" THEN @ + 1 ELSE @,
                 !.index = IF pc = "Querying" THEN @ + 1 ELSE @,
                 !.gen = IF pc = "Generating" THEN @ + 1 ELSE @]
  /\ pc' = "Blocked"
  /\ UNCHANGED <<payload, user_query, top_k, query_embedding, results, recipes,
                 recipe_embeddings, ranked, prompt, recipe_links, result,
                 retrieval, lastGen, response>>

NextStall == Next \/ Stall

StallSpec == Init /\ [][NextStall]_vars

\* the steps the worker itself takes for a request in progress
HandlerStep == Validate \/ Embed \/ QueryIndex \/ Compose \/ Generate

(***************************************************************************)
(* Result shapes of the handler (section 6 of the specification)           *)
(***************************************************************************)
ResultFields == {"query", "response", "recipes", "videos"}

HasBody(r) == DOMAIN r = {"status", "body"}

IsSuccess(r) ==
  /\ HasBody(r)
  /\ r.status = 200
  /\ DOMAIN r.body = ResultFields
  /\ r.body.recipes # <<>>

IsEmpty(r) ==
  /\ HasBody(r)
  /\ r.status = 200
  /\ DOMAIN r.body = ResultFields
  /\ r.body.response = Lit(NoResultsMsg)
  /\ r.body.recipes = <<>>
  /\ r.body.videos = <<>>

IsError(r) ==
  /\ HasBody(r)
  /\ r.status = 500
  /\ DOMAIN r.body = {"error"}

\* a payload the specification calls invalid, read off the payload itself
AllSpace(t) == \A i \in 1..Len(t) : IsSpace(t[i])

BadPayload(p) ==
  \/ "query" \notin DOMAIN p
  \/ AllSpace(p.query)
  \/ ("top_k" \in DOMAIN p /\ p.top_k <= 0)

Handled == pc \in Terminal

\* C1: a request with a query that is non-empty after trimming and k > 0
\* ends, whatever the embedder, the index and the generation call do, in
\* exactly one of Success, Empty and Error, and no exception leaves the
\* handler.
C1_ResultShape ==
  /\ "unhandled" \notin DOMAIN result
  /\ (Handled /\ ~BadPayload(payload)) =>
       /\ IsSuccess(result) \/ IsEmpty(result) \/ IsError(result)
       /\ ~(IsSuccess(result) /\ IsEmpty(result))
       /\ ~(IsSuccess(result) /\ IsError(result))
       /\ ~(IsEmpty(result) /\ IsError(result))
       /\ ~IsError(result) => result.body.query = user_query

\* C1 witness: the ranking raised inside generate_response and the request
\* still ended as a Success
C1_Witness ==
  /\ pc = "Done"
  /\ calls.prompt = 1
  /\ calls.gen = 0
  /\ recipe_embeddings # <<>>
  /\ IsSuccess(result)

\* C2: when retrieval succeeds with zero candidates the handler returns the
\* Empty result, and neither the prompt builder nor the generation call runs.
C2_EmptyShortCircuit ==
  (retrieval = "ok" /\ results.metadatas = <<>>) =>
    /\ pc = "Empty"
    /\ IsEmpty(result)
    /\ ~IsError(result)
    /\ result.body.query = user_query
    /\ calls.prompt = 0
    /\ calls.gen = 0

C2_Witness ==
  /\ pc = "Empty"
  /\ calls.index = 1
  /\ retrieval = "ok"

\* C3: with at least one candidate retrieved, a failing generation call gives
\* a Success whose text is the fixed generation-error placeholder and whose
\* recipes are the retrieved candidates.
C3_GenerationFailureAbsorbed ==
  (pc = "Done" /\ lastGen = "raised") =>
    /\ IsSuccess(result)
    /\ result.body.response = Lit(GenErrorMsg)
    /\ result.body.recipes = recipes
    /\ Len(result.body.recipes) = Len(results.metadatas)

C3_Witness ==
  /\ pc = "Done"
  /\ lastGen = "raised"
  /\ calls.gen = 1
  /\ Len(recipes) >= 2

\* C4: a request whose query is missing, empty or whitespace-only, or whose
\* k is not positive, is rejected before any external call is made.
C4_InvalidRejectedEarly ==
  (BadPayload(payload) /\ pc \notin {"Idle", "Validating"}) =>
    /\ pc = "Invalid"
    /\ result.status = 400
    /\ calls = NoCalls

C4_Witness ==
  /\ pc = "Invalid"
  /\ "query" \in DOMAIN payload
  /\ payload.query # <<>>
  /\ AllSpace(payload.query)
  /\ calls = NoCalls

\* C5: for a valid request the Error result is returned exactly when the
\* retrieval stage failed, always with the same generic text and without a
\* generation call; after a retrieval with candidates the request is never
\* an Error and ends as a Success.
C5_ErrorOnlyFromRetrieval ==
  /\ (Handled /\ pc # "Invalid") =>
       /\ IsError(result) <=> retrieval = "failed"
       /\ IsError(result) <=> pc = "Failed"
       /\ IsError(result) =>
            /\ result.body.error = SearchErrorMsg
            /\ calls.prompt = 0
            /\ calls.gen = 0
  /\ (retrieval = "ok" /\ recipes # <<>>) =>
       /\ pc \in {"Composing", "Generating", "Done"}
       /\ pc = "Done" => IsSuccess(result)

C5_Witness ==
  /\ pc = "Failed"
  /\ calls.embed = 1
  /\ calls.index = 1
  /\ IsError(result)

BeforeEllipsis(steps) == SubSeq(steps, 1, Len(steps) - 1)

TrimmedDirections(recipe) == strip(Get(recipe, "directions", <<>>))

\* C6: the prompt has entries for at most 3 candidates, and the directions
\* text of each entry, before the "..." suffix, is at most 200 characters:
\* the first 200 characters of the trimmed directions when these are longer,
\* the whole trimmed directions otherwise.
C6_PromptBounded ==
  /\ Len(prompt.entries) <= 3
  /\ Len(prompt.entries) <= Len(ranked)
  /\ \A i \in 1..Len(prompt.entries) :
       LET steps == prompt.entries[i].steps
           body == BeforeEllipsis(steps)
           d == TrimmedDirections(ranked[i][1])
       IN /\ steps # <<>>
          /\ steps[Len(steps)] = Run(".", 3)
          /\ len(body) <= 200
          /\ len(d) > 200 => (len(body) = 200 /\ body = Slice(d, 200))
          /\ len(d) <= 200 => body = d

C6_Witness ==
  /\ pc = "Generating"
  /\ Len(recipes) > 3
  /\ Len(prompt.entries) = 3
  /\ \E i \in 1..3 :
       /\ len(TrimmedDirections(ranked[i][1])) > 200
       /\ len(BeforeEllipsis(prompt.entries[i].steps)) = 200
  /\ \E i \in 1..3 : len(TrimmedDirections(ranked[i][1])) = 200

Position(recipe) == CHOOSE p \in 1..Len(recipes) : recipes[p] = recipe

ScoreEq(a, b) == a.s * b.d = b.s * a.d

\* C8: the ranked list holds the scored candidates by similarity descending,
\* candidates of equal score in retrieval order; the prompt takes its first
\* min(3, n) elements, so no candidate left out scores strictly higher than
\* one taken in.
C8_RankedOrder ==
  ranked # <<>> =>
    /\ Len(ranked) = Min(Len(recipes), Len(recipe_embeddings))
    /\ {ranked[i][1] : i \in 1..Len(ranked)} = {recipes[p] : p \in 1..Len(ranked)}
    /\ \A i \in 1..Len(ranked) :
         ranked[i][2] =
           Score(query_embedding, recipe_embeddings[Position(ranked[i][1])])
    /\ \A i, j \in 1..Len(ranked) :
         i < j =>
           /\ ~ScoreLess(ranked[i][2], ranked[j][2])
           /\ ScoreEq(ranked[i][2], ranked[j][2]) =>
                Position(ranked[i][1]) < Position(ranked[j][1])
    /\ Len(prompt.entries) = Min(3, Len(ranked))
    /\ \A i \in 1..Len(prompt.entries) :
         /\ prompt.entries[i].video = YoutubePrefix \o ranked[i][1].id
         /\ prompt.entries[i].ingredients = ranked[i][1].ingredients
    /\ \A i, j \in 1..Len(ranked) :
         (i <= Len(prompt.entries) /\ j > Len(prompt.entries)) =>
           ~ScoreLess(ranked[i][2], ranked[j][2])

\* C8 witness: four candidates ranked, the order differs from the retrieval
\* order, and two of them tie
C8_Witness ==
  /\ pc = "Generating"
  /\ Len(ranked) >= 4
  /\ ranked[1][1] # recipes[1]
  /\ \E i, j \in 1..Len(ranked) :
       /\ i < j
       /\ ScoreEq(ranked[i][2], ranked[j][2])
       /\ Position(ranked[i][1]) + 1 < Position(ranked[j][1])

\* the fields of a metadata record other than its id
SameButId(a, b) ==
  /\ DOMAIN a \ {"id"} = DOMAIN b \ {"id"}
  /\ \A k \in DOMAIN a \ {"id"} : a[k] = b[k]

\* C7: a Success carries the metadata of all retrieved candidates in
\* retrieval order, and videos has one entry per retrieved candidate, keyed
\* by its id with the watch link of that id: n candidates give n recipes and
\* n videos.
C7_AllRecipesAndVideos ==
  (pc = "Done" /\ IsSuccess(result)) =>
    LET rs == result.body.recipes
        videos == result.body.videos
    IN /\ Len(rs) = Len(results.metadatas)
       /\ \A i \in 1..Len(rs) :
            /\ SameButId(rs[i], results.metadatas[i])
            /\ rs[i].id \in DictKeys(videos)
            /\ DictLookup(videos, rs[i].id) = YoutubePrefix \o rs[i].id
       /\ DictKeys(videos) = {rs[i].id : i \in 1..Len(rs)}
       /\ Len(videos) = Len(rs)

\* C9: sourceLinks has exactly one entry per candidate of the prompt, from
\* the candidate's id to the watch link of that id, and no other entry.
C9_SourceLinksMatchPrompt ==
  prompt.entries # <<>> =>
    /\ DictKeys(recipe_links) =
         {ranked[i][1].id : i \in 1..Len(prompt.entries)}
    /\ \A i \in 1..Len(recipe_links) :
         recipe_links[i][2] = YoutubePrefix \o recipe_links[i][1]
    /\ Len(recipe_links) = Len(prompt.entries)

\* C10: after retrieval every candidate has an id, the explicit one of its
\* metadata if there is one and "recipe_{position}" otherwise, and the ids of
\* one response are pairwise distinct.
C10_IdsPresentAndDistinct ==
  retrieval = "ok" =>
    /\ Len(recipes) = Len(results.metadatas)
    /\ \A i \in 1..Len(recipes) :
         /\ "id" \in DOMAIN recipes[i]
         /\ "id" \in DOMAIN results.metadatas[i] =>
              recipes[i].id = results.metadatas[i].id
         /\ "id" \notin DOMAIN results.metadatas[i] =>
              recipes[i].id = "recipe_" \o ToString(i - 1)
    /\ \A i, j \in 1..Len(recipes) : i # j => recipes[i].id # recipes[j].id

\* the answer the specification describes for a normal return with output:
\* the fragments of the first candidate, the heading, one line per link
ExpectedAnswer(fragments, links) ==
  strip(Concat(fragments)
          \o <<Run("\n", 2), Run("Video Links:", 1), Run("\n", 1)>>
          \o JoinLines([i \in 1..Len(links) |->
                          Lit(links[i][1] \o ": " \o links[i][2])]))

HasHeading(t) == \E i \in 1..Len(t) : t[i].c = "Video Links:"

\* C11: when the generation call returns normally with at least one output
\* candidate, the answer is the fragments of the first candidate in order,
\* then the "Video Links:" heading and one "{id}: {url}" line per sourceLinks
\* entry, trimmed; with no output candidate or no response object it is the
\* fixed "no response received" message without trailer.
C11_AnswerText ==
  (pc = "Done" /\ calls.gen = 1 /\ lastGen # "raised") =>
    LET text == result.body.response
    IN IF response.present /\ response.candidates # <<>>
       THEN /\ text = ExpectedAnswer(response.candidates[1], recipe_links)
            /\ text # <<>>
            /\ ~IsSpace(text[1])
            /\ ~IsSpace(text[Len(text)])
            /\ HasHeading(text)
            /\ Cardinality({i \in 1..Len(text) :
                              \E j \in 1..Len(recipe_links) :
                                text[i] = Run(recipe_links[j][1] \o ": "
                                                \o recipe_links[j][2], 1)})
                 = Len(recipe_links)
       ELSE /\ text = Lit(NoModelResponseMsg)
            /\ ~HasHeading(text)

\* C11 witness: two output candidates, the first with fragments that start
\* with whitespace, and two links in the trailer
C11_Witness ==
  /\ pc = "Done"
  /\ lastGen = "text"
  /\ Len(response.candidates) >= 2
  /\ Len(response.candidates[1]) >= 2
  /\ IsSpace(response.candidates[1][1][1])
  /\ Len(recipe_links) >= 2
  /\ ~IsSpace(result.body.response[1])

\* C12: every valid request eventually reaches a terminal state (Done,
\* Empty or Failed), also when an external dependency never responds,
\* because each external call is bounded by a timeout that counts as the
\* failure of its stage: a request in progress is never left without a next
\* step of the handler.
C12_EveryCallBounded ==
  (pc \notin {"Idle"} \cup Terminal) => ENABLED HandlerStep

\* candidate i of the index result came with a non-empty embedding
HasEmbedding(i) ==
  i <= Len(results.embeddings) /\ results.embeddings[i] # <<>>

\* C13: a retrieved candidate whose embedding is missing or zero-length is
\* left out of the ranking, the prompt and sourceLinks; every other candidate
\* is ranked, scored against its own embedding, and the request does not
\* become a failure.
C13_NoEmbeddingExcluded ==
  (calls.prompt = 1 /\ pc \in {"Generating", "Done"}) =>
    /\ \A i \in 1..Len(recipes) :
         (\E j \in 1..Len(ranked) : ranked[j][1] = recipes[i]) <=> HasEmbedding(i)
    /\ \A j \in 1..Len(ranked) :
         ranked[j][2] =
           Score(query_embedding, results.embeddings[Position(ranked[j][1])])
    /\ \A e \in 1..Len(prompt.entries) :
         \E i \in 1..Len(recipes) :
           /\ HasEmbedding(i)
           /\ prompt.entries[e].ingredients = recipes[i].ingredients
    /\ DictKeys(recipe_links) \subseteq
         {ranked[j][1].id : j \in 1..Len(prompt.entries)}
    /\ pc = "Done" => IsSuccess(result)

(***************************************************************************)
(* Batch ingestion.                                                        *)
(*   backend/import_csv_to_mongo.py  main: CSV lines -> MongoDB documents  *)
(*   backend/preprocess.py           main, process_batch: MongoDB          *)
(*                                   documents -> vector index             *)
(* Both jobs use the collection smart_recipe_db.recipes, so the index is   *)
(* built from what the import stored.  pymongo's insert_one, the embedder  *)
(* and the index's add are external calls that may return or raise.        *)
(***************************************************************************)
MaxLines == 3        \* most data lines of one CSV file
BatchSize == 2       \* BATCH_SIZE of a run (read from the environment)

\* a list column of a CSV line as ast.literal_eval sees it: a list literal,
\* a literal that is not a list, or text that is no literal at all
ListField(items) == [kind |-> "list", items |-> items]
ScalarField == [kind |-> "scalar", items |-> <<>>]
GarbageField == [kind |-> "garbage", items |-> <<>>]

\* a line LINE_RE does not match
NoMatchLine == [match |-> FALSE, id |-> "", title |-> <<>>,
                ingredients |-> GarbageField, directions |-> GarbageField]

CsvLine(id, title, ingredients, directions) ==
  [match |-> TRUE, id |-> id, title |-> title,
   ingredients |-> ingredients, directions |-> directions]

\* the data lines a file is made of
CsvLines ==
  { NoMatchLine,
    CsvLine("1", Lit("Soup"), GarbageField, ListField(<<Lit("boil")>>)),
    CsvLine("2", Lit("Rice"), ListField(<<Lit("salt")>>),
            ListField(<< <<Run(" ", 2)>> >>)),
    CsvLine("3", <<Run(" ", 1), Run("Stew", 1), Run(" ", 1)>>,
            ListField(<<Lit("beef"), <<Run(" ", 1)>> >>),
            ListField(<< <<Run(" ", 1), Run("Mix", 1), Run(" ", 2),
                           Run("well", 1), Run("!", 1)>> >>)),
    CsvLine("4", <<>>, ListField(<<Lit("egg")>>), ListField(<<Lit("bake")>>)),
    CsvLine("5", Lit("Tea"), ListField(<<>>), ScalarField) }

CsvFiles == UNION { [1..n -> CsvLines] : n \in 0..MaxLines }

\* to_list: the parsed list, or None when the text is no literal or no list
to_list(f) ==
  IF f.kind = "list" THEN [none |-> FALSE, items |-> f.items]
  ELSE [none |-> TRUE, items |-> <<>>]

\* Python's "not x" for a value that is None or a list
Falsy(v) == v.none \/ v.items = <<>>

\* [str(x).strip() for x in items if str(x).strip()]
RECURSIVE StripNonEmpty(_)
StripNonEmpty(items) ==
  IF items = <<>> THEN <<>>
  ELSE IF strip(Head(items)) = <<>> THEN StripNonEmpty(Tail(items))
       ELSE <<strip(Head(items))>> \o StripNonEmpty(Tail(items))

\* (title or "").strip() or "Unnamed Recipe"
TitleOrUnnamed(t) == IF strip(t) = <<>> THEN Lit("Unnamed Recipe") ELSE strip(t)

\* the body of the for loop of import_csv_to_mongo.main for one line; insertOk
\* is whether col.insert_one returns.  The loop has no exception handler, so a
\* raise of insert_one leaves main.
ImportLine(job, line, insertOk) ==
  LET ingredients == to_list(line.ingredients)
      directions == to_list(line.directions)
      ing == StripNonEmpty(ingredients.items)
      dir == StripNonEmpty(directions.items)
      doc == [_id |-> Len(job.col) + 1, _csv_id |-> line.id,
              name |-> TitleOrUnnamed(line.title),
              ingredients |-> ing, directions |-> dir]
      skip == [job EXCEPT !.pos = @ + 1, !.skipped = @ + 1]
  IN IF ~line.match THEN skip
     ELSE IF Falsy(ingredients) \/ Falsy(directions) THEN skip
     ELSE IF ing = <<>> \/ dir = <<>> THEN skip
     ELSE IF ~insertOk THEN [job EXCEPT !.pc = "aborted"]
     ELSE [job EXCEPT !.pos = @ + 1, !.inserted = @ + 1,
                      !.col = Append(@, doc)]

\* str.lower() on the fragments the files use
Lower(c) == CASE c = "Mix" -> "mix" [] c = "Stew" -> "stew"
              [] c = "Unnamed Recipe" -> "unnamed recipe" [] OTHER -> c

lower(t) == [i \in 1..Len(t) |-> Run(Lower(t[i].c), t[i].n)]

\* re.sub(r"\s+", " ", t)
RECURSIVE CollapseSpaces(_)
CollapseSpaces(t) ==
  IF t = <<>> THEN <<>>
  ELSE IF IsSpace(Head(t))
       THEN <<Run(" ", 1)>> \o CollapseSpaces(lstrip(Tail(t)))
       ELSE <<Head(t)>> \o CollapseSpaces(Tail(t))

\* characters that are neither \w nor \s
Special(r) == r.c \in {"!", ",", "."}

\* re.sub(r"[^\w\s]", "", t)
RemoveSpecial(t) == SelectSeq(t, LAMBDA r : ~Special(r))

\* normalize_text: one normalized string per input string, empty ones kept
normalize_text(text_list) ==
  [i \in 1..Len(text_list) |->
     RemoveSpecial(CollapseSpaces(lower(strip(text_list[i]))))]

\* sep.join(parts)
RECURSIVE Join(_, _)
Join(sep, parts) ==
  IF parts = <<>> THEN <<>>
  ELSE IF Len(parts) = 1 THEN Head(parts)
       ELSE Head(parts) \o sep \o Join(sep, Tail(parts))

\* the loop of process_batch: one index entry per recipe of the batch that is
\* complete and whose embedding was computed; embedFails holds the _id of the
\* recipes for which vectorize_text raises (caught per recipe)
RECURSIVE BatchEntries(_, _)
BatchEntries(batch, embedFails) ==
  IF batch = <<>> THEN <<>>
  ELSE LET recipe == Head(batch)
           title == TitleOrUnnamed(recipe.name)
           ingredients == normalize_text(recipe.ingredients)
           directions == normalize_text(recipe.directions)
           entry == [id |-> ToString(recipe._id),
                     metadata |->
                       [title |-> title,
                        ingredients |-> Join(<<Run(",", 1), Run(" ", 1)>>, ingredients),
                        directions |-> Join(<<Run(".", 1), Run(" ", 1)>>, directions)]]
           rest == BatchEntries(Tail(batch), embedFails)
       IN IF ingredients = <<>> \/ directions = <<>> THEN rest
          ELSE IF recipe._id \in embedFails THEN rest
          ELSE <<entry>> \o rest

\* process_batch: the entries are pushed by one collection.add, outside the
\* per-recipe handler, so its failure leaves process_batch
process_batch(batch, embedFails, addOk) ==
  LET entries == BatchEntries(batch, embedFails)
  IN IF entries # <<>> /\ ~addOk THEN [raised |-> TRUE, added |-> <<>>]
     ELSE [raised |-> FALSE, added |-> entries]

total_batches(recipes_) == (Len(recipes_) + BatchSize - 1) \div BatchSize

\* recipes[start:end] of batch number b (from 0)
BatchOf(recipes_, b) ==
  SubSeq(recipes_, b * BatchSize + 1,
         IF (b + 1) * BatchSize < Len(recipes_) THEN (b + 1) * BatchSize
         ELSE Len(recipes_))

\* import_csv_to_mongo.main up to the loop: the collection is emptied and the
\* counters start at zero
CsvOpen ==
  /\ csvjob.pc = "idle"
  /\ \E f \in CsvFiles :
       csvjob' = [pc |-> "reading", file |-> f, pos |-> 0, inserted |-> 0,
                  skipped |-> 0, col |-> <<>>]
  /\ UNCHANGED <<pc, payload, user_query, top_k, query_embedding, results,
                 recipes, recipe_embeddings, ranked, prompt, recipe_links,
                 result, calls, retrieval, lastGen, response, indexjob>>

\* one iteration of the loop over the lines
CsvRead ==
  /\ csvjob.pc = "reading"
  /\ csvjob.pos < Len(csvjob.file)
  /\ \E insertOk \in BOOLEAN :
       csvjob' = ImportLine(csvjob, csvjob.file[csvjob.pos + 1], insertOk)
  /\ UNCHANGED <<pc, payload, user_query, top_k, query_embedding, results,
                 recipes, recipe_embeddings, ranked, prompt, recipe_links,
                 result, calls, retrieval, lastGen, response, indexjob>>

\* end of file: the counters are printed
CsvClose ==
  /\ csvjob.pc = "reading"
  /\ csvjob.pos = Len(csvjob.file)
  /\ csvjob' = [csvjob EXCEPT !.pc = "done"]
  /\ UNCHANGED <<pc, payload, user_query, top_k, query_embedding, results,
                 recipes, recipe_embeddings, ranked, prompt, recipe_links,
                 result, calls, retrieval, lastGen, response, indexjob>>

\* preprocess.main: the documents with directions are loaded from MongoDB
IndexLoad ==
  /\ indexjob.pc = "idle"
  /\ csvjob.pc \in {"done", "aborted"}
  /\ indexjob' = [IndexIdle EXCEPT
                    !.pc = "batching",
                    !.recipes = SelectSeq(csvjob.col,
                                          LAMBDA d : d.directions # <<>>)]
  /\ UNCHANGED <<pc, payload, user_query, top_k, query_embedding, results,
                 recipes, recipe_embeddings, ranked, prompt, recipe_links,
                 result, calls, retrieval, lastGen, response, csvjob>>

\* one iteration of the loop over the batches: process_batch inside main's
\* try/except, which logs a failure and goes on with the next batch
IndexBatch ==
  /\ indexjob.pc = "batching"
  /\ indexjob.batch_idx < total_batches(indexjob.recipes)
  /\ LET batch == BatchOf(indexjob.recipes, indexjob.batch_idx)
     IN \E embedFails \in SUBSET {batch[i]._id : i \in 1..Len(batch)},
           addOk \in BOOLEAN :
          LET out == process_batch(batch, embedFails, addOk)
          IN indexjob' = [indexjob EXCEPT
                            !.batch_idx = @ + 1,
                            !.stored = @ \o out.added,
                            !.embedFailed = @ \cup embedFails,
                            !.addFailed = IF out.raised
                                          THEN @ \cup {indexjob.batch_idx}
                                          ELSE @]
  /\ UNCHANGED <<pc, payload, user_query, top_k, query_embedding, results,
                 recipes, recipe_embeddings, ranked, prompt, recipe_links,
                 result, calls, retrieval, lastGen, response, csvjob>>

\* "All batches processed successfully!"
IndexFinish ==
  /\ indexjob.pc = "batching"
  /\ indexjob.batch_idx = total_batches(indexjob.recipes)
  /\ indexjob' = [indexjob EXCEPT !.pc = "done"]
  /\ UNCHANGED <<pc, payload, user_query, top_k, query_embedding, results,
                 recipes, recipe_embeddings, ranked, prompt, recipe_links,
                 result, calls, retrieval, lastGen, response, csvjob>>

IngestNext ==
  CsvOpen \/ CsvRead \/ CsvClose \/ IndexLoad \/ IndexBatch \/ IndexFinish

IngestSpec == Init /\ [][IngestNext]_vars

IngestTypeOK ==
  /\ csvjob.pc \in {"idle", "reading", "done", "aborted"}
  /\ indexjob.pc \in {"idle", "batching", "done"}
  /\ csvjob.inserted = Len(csvjob.col)
  /\ csvjob.pos <= Len(csvjob.file)

(***************************************************************************)
(* C14                                                                     *)
(***************************************************************************)
\* a list column with at least one non-blank item
HasContent(f) ==
  f.kind = "list" /\ \E i \in 1..Len(f.items) : strip(f.items[i]) # <<>>

\* a data line that matches the format and has ingredients and directions
WellFormedLine(l) == l.match /\ HasContent(l.ingredients) /\ HasContent(l.directions)

CsvEnded == csvjob.pc \in {"done", "aborted"}

\* the CSV ids of the stored documents, in order
StoredCsvIds == [i \in 1..Len(csvjob.col) |-> csvjob.col[i]._csv_id]

WellFormedIds ==
  LET good == SelectSeq(csvjob.file, WellFormedLine)
  IN [i \in 1..Len(good) |-> good[i].id]

\* the import read every data line, counted each one as inserted or skipped,
\* and stored exactly the well-formed ones
CsvAllProcessed ==
  CsvEnded =>
    /\ csvjob.inserted + csvjob.skipped = Len(csvjob.file)
    /\ StoredCsvIds = WellFormedIds

\* number (from 0) of the batch the i-th loaded recipe belongs to
BatchNo(i) == (i - 1) \div BatchSize

\* the recipes the index must hold at the end: those whose own embedding was
\* computed and whose batch was accepted by the index
ExpectedIndexIds ==
  LET keep == { i \in 1..Len(indexjob.recipes) :
                  /\ indexjob.recipes[i]._id \notin indexjob.embedFailed
                  /\ BatchNo(i) \notin indexjob.addFailed }
      kept == SelectSeq(indexjob.recipes,
                        LAMBDA r : \E i \in keep : indexjob.recipes[i] = r)
  IN [i \in 1..Len(kept) |-> ToString(kept[i]._id)]

StoredIndexIds == [i \in 1..Len(indexjob.stored) |-> indexjob.stored[i].id]

\* the index build reached every batch, and a recipe that failed kept no other
\* recipe of its batch or of a later batch out of the index
IndexAllProcessed ==
  indexjob.pc = "done" =>
    /\ indexjob.batch_idx = total_batches(indexjob.recipes)
    /\ StoredIndexIds = ExpectedIndexIds

\* C14: for any sequence of input records, each malformed or incomplete record
\* is skipped and counted, every well-formed record is stored whatever fails on
\* other records of the run, and the run processes all records to the end: for
\* the CSV import inserted + skipped equals the number of data lines read; for
\* the index build one recipe's failure keeps no other recipe of its batch, or
\* of a later batch, from being indexed.
C14_SkipCountNeverAbort == CsvAllProcessed /\ IndexAllProcessed

====
